---- MODULE Spec2Model ----
(***************************************************************************)
(* openweather-influxdb-connector: one run of main().                      *)
(*                                                                         *)
(* The program is a single sequential function.  The model cuts it at its  *)
(* external calls (config read, InfluxDB health probe, MQTT connect,       *)
(* OpenWeatherMap fetches, InfluxDB WritePoint attempts, MQTT publishes)   *)
(* and keeps, beside the program's own variables, two observation          *)
(* variables: calls (every external operation invoked, in order) and logs  *)
(* (every log record produced).                                            *)
(***************************************************************************)
EXTENDS Integers, Sequences, FiniteSets, TLC

VARIABLES
    pc,               \* position in main()
    exitStatus,       \* -1 while running, then the process exit status
    logs,             \* set of log records produced so far
    config,           \* Config, after json.Unmarshal
    influxConfigured, \* main: influxConfigured
    mqttConfigured,   \* main: mqttConfigured
    deferred,         \* TRUE once `defer mqttClient.Disconnect(250)` is registered
    calls,            \* sequence of external operations invoked so far
    wx,               \* the weather reading and the outcome of its derived computations
    ecobeeData,       \* main: ecobeeData (map)
    weatherData,      \* main: weatherData (map)
    pol,              \* the pollution reading
    pollutionData,    \* main: pollutionData (map)
    n                 \* retry.Do: attempts made so far in the current retry loop

vars == <<pc, exitStatus, logs, config, influxConfigured, mqttConfigured, deferred,
          calls, wx, ecobeeData, weatherData, pol, pollutionData, n>>

----------------------------------------------------------------------------
(* Bounds of the model *)

\* readings carry a unix timestamp (Dt) in 1..MaxTime
MaxTime == 2

Times == 1..MaxTime

\* both readings taken at the same, latest, instant
SameTime == {MaxTime}

\* a reading's temperature lies in -MaxCold..MaxTemp degF, its wind speed in
\* 0..MaxWind mph (whole degrees and whole miles per hour)
MaxCold == 20

MaxTemp == 72

MaxWind == 5

Temps == (0 - MaxCold)..MaxTemp

WindSpeeds == 0..MaxWind

\* relative humidity in percent: the ends of the range, one value inside and
\* the value the provider sends for perfectly dry air
Humidities == {0, 1, 45, 100}

----------------------------------------------------------------------------
(* Program constants *)

influxAttempts == 3

source == "openweathermap"
sourceTag == "data_source"
thermostatNameTag == "thermostat_name"
latTag == "latitude"
lonTag == "longitude"
ecobeeWeatherMeasurementName == "ecobee_weather"

\* Go maps are modelled as TLA+ functions from keys to values.
EmptyMap == [k \in {} |-> ""]

\* the record w with the fields of r set or added
With(w, r) ==
    [k \in (DOMAIN w) \cup (DOMAIN r) |-> IF k \in DOMAIN r THEN r[k] ELSE w[k]]

MapSet(m, k, v) == [x \in (DOMAIN m) \cup {k} |-> IF x = k THEN v ELSE m[x]]

Keys(m) == DOMAIN m

----------------------------------------------------------------------------
(* Observation: external operations and log records *)

\* One external operation.  op is the operation, point the MeasurementPoint it
\* carries ("" when none), target the measurement name or topic, tags and
\* fields the maps handed over, ts the point's timestamp (0 when none), ok
\* whether the call returned without error.  A health probe carries the
\* status it returned as its target.
Ev(op, point, target, tags, fields, ts, ok) ==
    [op |-> op, point |-> point, target |-> target, tags |-> tags,
     fields |-> fields, ts |-> ts, ok |-> ok]

Call(op, ok) == Ev(op, "", "", EmptyMap, EmptyMap, 0, ok)

Idx == 1..Len(calls)

Ops(o) == {i \in Idx : calls[i].op = o}

Writes(p) == {i \in Idx : calls[i].op = "write" /\ calls[i].point = p}

Publishes(p) == {i \in Idx : calls[i].op = "publish" /\ calls[i].point = p}

ProviderOps == {"fetch_weather", "fetch_pollution"}

Points == {"ecobee", "weather", "pollution"}

----------------------------------------------------------------------------
(* Configuration *)

\* Config after json.Unmarshal.  Strings are drawn empty or not; the
\* coordinates (held in thousandths of a degree) and the topic root do not
\* steer the control flow and are fixed.
Configs ==
    [APIKey : {"", "key"},
     WeatherMeasurementName : {"", "weather"},
     PollutionMeasurementName : {"", "pollution"},
     WriteEcobeeWeatherMeasurement : BOOLEAN,
     EcobeeThermostatName : {"", "thermostat"},
     InfluxServer : {"", "http://influx"},
     InfluxBucket : {"", "bucket"},
     InfluxHealthCheckDisabled : BOOLEAN,
     MQTTEnabled : BOOLEAN,
     MQTTServer : {"", "broker"},
     MQTTTopicRoot : {"home"},
     Latitude : {40000},
     Longitude : {-75000}]

\* every name set, no health probe
NamedConfigs ==
    {c \in Configs :
        /\ c.APIKey # "" /\ c.WeatherMeasurementName # ""
        /\ c.PollutionMeasurementName # "" /\ c.EcobeeThermostatName # ""
        /\ c.InfluxBucket # "" /\ c.MQTTServer # ""
        /\ c.InfluxHealthCheckDisabled}

\* the configurations that differ only in which sinks are configured: every
\* name set, no health probe, no ecobee_weather measurement
SinkConfigs == {c \in NamedConfigs : ~c.WriteEcobeeWeatherMeasurement}

\* the same with the ecobee_weather measurement written
EcobeeConfigs == {c \in NamedConfigs : c.WriteEcobeeWeatherMeasurement}

\* the configuration both versions of main accept alike: every name set, the
\* database configured without a health probe, no message bus, no
\* ecobee_weather measurement
FormulaConfigs ==
    {c \in Configs :
        /\ c.APIKey # "" /\ c.WeatherMeasurementName # ""
        /\ c.PollutionMeasurementName # "" /\ c.EcobeeThermostatName # ""
        /\ c.InfluxServer # "" /\ c.InfluxBucket # "" /\ c.InfluxHealthCheckDisabled
        /\ ~c.MQTTEnabled /\ c.MQTTServer = "" /\ ~c.WriteEcobeeWeatherMeasurement}

NoConfig == [APIKey |-> ""]

\* influxConfigured := config.InfluxServer != "" && config.InfluxBucket != ""
InfluxConfigured(c) == c.InfluxServer # "" /\ c.InfluxBucket # ""

\* mqttConfigured := config.MQTT.Enabled && config.MQTT.Server != ""
MqttConfigured(c) == c.MQTTEnabled /\ c.MQTTServer # ""

NoOutputConfiguredAlwaysFalse(ic, mc) == FALSE

\* if !influxConfigured && !mqttConfigured { log.Fatal(...) }
NoOutputConfigured(ic, mc) == ~ic /\ ~mc

\* if !config.InfluxHealthCheckDisabled { ... influxClient.Health(ctx) ... }
HealthCheckWanted(c) == ~c.InfluxHealthCheckDisabled

HealthFatalOnErrorOnly(res) == res = "error"

\* err != nil, or health.Status != "pass"
HealthFatal(res) == res # "pass"

----------------------------------------------------------------------------
(* Program order *)

\* main() with the pollution fetch and the AQI computations moved ahead of
\* the delivery of the weather point
ProgramOrderPollutionFirst ==
    << "flags", "read_config", "validate", "influx_setup", "mqtt_setup",
       "new_current", "fetch_weather", "compute_weather", "ecobee",
       "prepare_weather", "new_pollution", "fetch_pollution", "aqi_pm", "aqi_us",
       "write_weather", "publish_weather",
       "prepare_pollution", "write_pollution", "publish_pollution", "return" >>

\* The statements of main() in source order.
ProgramOrder ==
    << "flags", "read_config", "validate", "influx_setup", "mqtt_setup",
       "new_current", "fetch_weather", "compute_weather", "ecobee",
       "prepare_weather", "write_weather", "publish_weather",
       "new_pollution", "fetch_pollution", "aqi_pm", "aqi_us",
       "prepare_pollution", "write_pollution", "publish_pollution", "return" >>

PosOf(p) == CHOOSE i \in 1..Len(ProgramOrder) : ProgramOrder[i] = p

\* the statement that follows p
Follows(p) == ProgramOrder[PosOf(p) + 1]

Before(p, q) == PosOf(p) < PosOf(q)

----------------------------------------------------------------------------
(* Exits *)

\* the run is at statement p
At(p) == exitStatus = -1 /\ pc = p

\* the process ends with this status; pc stays at the statement that ended it
Exit(status) ==
    /\ exitStatus' = status
    /\ UNCHANGED pc

\* log.Fatal / log.Fatalf: the record is written, then os.Exit(1); deferred
\* calls are not run.
Fatal(msg) ==
    /\ logs' = logs \cup {msg}
    /\ Exit(1)

\* control moves on to statement q
Goto(q) ==
    /\ pc' = q
    /\ UNCHANGED exitStatus

----------------------------------------------------------------------------
(* Flags and configuration: main, lines 68-106 *)

ParseFlags ==
    /\ At("flags")
    /\ \E a \in {"version", "noconfig", "run"} :
          CASE a = "version"  -> Exit(0)
            [] a = "noconfig" -> Exit(1)
            [] a = "run"      -> Goto(Follows("flags"))
    /\ UNCHANGED <<logs, config, influxConfigured, mqttConfigured, deferred, calls,
                   wx, ecobeeData, weatherData, pol, pollutionData, n>>

\* os.ReadFile and json.Unmarshal; S is the set of configurations a file may hold
ReadConfigFrom(S) ==
    /\ At("read_config")
    /\ \E r \in {"read_error", "parse_error", "ok"} :
          CASE r = "read_error"  -> Fatal("Unable to read config file") /\ UNCHANGED config
            [] r = "parse_error" -> Fatal("Unable to parse config file") /\ UNCHANGED config
            [] r = "ok"          -> /\ \E c \in S : config' = c
                                    /\ Goto(Follows("read_config"))
                                    /\ UNCHANGED logs
    /\ UNCHANGED <<influxConfigured, mqttConfigured, deferred, calls,
                   wx, ecobeeData, weatherData, pol, pollutionData, n>>

ReadConfig == ReadConfigFrom(Configs)

\* the same step over SinkConfigs
ReadSinkConfig == ReadConfigFrom(SinkConfigs)

\* the same step over EcobeeConfigs
ReadEcobeeConfig == ReadConfigFrom(EcobeeConfigs)

\* the same step over FormulaConfigs
ReadFormulaConfig == ReadConfigFrom(FormulaConfigs)

EcobeeNameMissingIgnored(c) == FALSE

\* if config.WriteEcobeeWeatherMeasurement && config.EcobeeThermostatName == ""
EcobeeNameMissing(c) ==
    c.WriteEcobeeWeatherMeasurement /\ c.EcobeeThermostatName = ""

ValidateConfig ==
    /\ At("validate")
    /\ IF config.APIKey = ""
         THEN Fatal("api_key must be set in the config file.")
              /\ UNCHANGED <<influxConfigured, mqttConfigured>>
       ELSE IF config.WeatherMeasurementName = ""
         THEN Fatal("wx_measurement_name must be set in the config file.")
              /\ UNCHANGED <<influxConfigured, mqttConfigured>>
       ELSE IF EcobeeNameMissing(config)
         THEN Fatal("ecobee_thermostat_name must be set in the config file if write_ecobee_wx_measurement is set.")
              /\ UNCHANGED <<influxConfigured, mqttConfigured>>
       ELSE /\ influxConfigured' = InfluxConfigured(config)
            /\ mqttConfigured' = MqttConfigured(config)
            /\ IF NoOutputConfigured(influxConfigured', mqttConfigured')
                 THEN Fatal("At least one output (InfluxDB or MQTT) must be configured.")
                 ELSE Goto(Follows("validate")) /\ UNCHANGED logs
    /\ UNCHANGED <<config, deferred, calls, wx, ecobeeData, weatherData, pol,
                   pollutionData, n>>

----------------------------------------------------------------------------
(* Sink setup: main, lines 108-150 *)

\* outcomes of influxClient.Health(ctx): an error (timeout included), status
\* "pass", another status with a message, another status without a message
HealthResults == {"error", "pass", "fail", "fail_nomsg"}

SetupInflux ==
    /\ At("influx_setup")
    /\ IF influxConfigured /\ HealthCheckWanted(config)
         THEN \E res \in HealthResults :
                /\ calls' = Append(calls, Ev("health", "", res, EmptyMap, EmptyMap, 0,
                                              res # "error"))
                /\ IF ~HealthFatal(res)
                     THEN Goto(Follows("influx_setup")) /\ UNCHANGED logs
                   ELSE IF res = "error"
                     THEN Fatal("Failed to check InfluxDB health")
                   ELSE IF res = "fail_nomsg"
                     \* *health.Message with a nil Message: the run panics
                     THEN logs' = logs \cup {"panic: nil pointer dereference"} /\ Exit(2)
                   ELSE Fatal("InfluxDB did not pass health check")
         ELSE Goto(Follows("influx_setup")) /\ UNCHANGED <<logs, calls>>
    /\ UNCHANGED <<config, influxConfigured, mqttConfigured, deferred,
                   wx, ecobeeData, weatherData, pol, pollutionData, n>>

SetupMQTT ==
    /\ At("mqtt_setup")
    /\ IF mqttConfigured
         THEN \E ok \in BOOLEAN :
                /\ calls' = Append(calls, Call("connect", ok))
                /\ IF ok
                     THEN /\ deferred' = TRUE
                          /\ Goto(Follows("mqtt_setup"))
                          /\ UNCHANGED logs
                     ELSE /\ Fatal("Failed to connect to MQTT broker")
                          /\ UNCHANGED deferred
         ELSE Goto(Follows("mqtt_setup")) /\ UNCHANGED <<logs, calls, deferred>>
    /\ UNCHANGED <<config, influxConfigured, mqttConfigured,
                   wx, ecobeeData, weatherData, pol, pollutionData, n>>

----------------------------------------------------------------------------
(* The formula library: wxlib.go *)

\* A float64 is held in thousandths, every operation rounded to the nearest
\* thousandth; NaN is a value of its own.
Round(x, d) == (x + d \div 2) \div d

NaN == [nan |-> TRUE, v |-> 0]

Num(x) == [nan |-> FALSE, v |-> x]

\* (tempF - 32.0) / 1.8
TempFToC(tempF) == Round((tempF - 32000) * 5, 9)

\* tempC*1.8 + 32.0
TempCToF(tempC) == Round(tempC * 18, 10) + 32000

\* math.Log(float64(relH)/100.0) for relH in 1..100, in thousandths
LogTable ==
    << -4605, -3912, -3507, -3219, -2996, -2813, -2659, -2526, -2408, -2303,
       -2207, -2120, -2040, -1966, -1897, -1833, -1772, -1715, -1661, -1609,
       -1561, -1514, -1470, -1427, -1386, -1347, -1309, -1273, -1238, -1204,
       -1171, -1139, -1109, -1079, -1050, -1022, -994, -968, -942, -916,
       -892, -868, -844, -821, -799, -777, -755, -734, -713, -693,
       -673, -654, -635, -616, -598, -580, -562, -545, -528, -511,
       -494, -478, -462, -446, -431, -416, -400, -386, -371, -357,
       -342, -329, -315, -301, -288, -274, -261, -248, -236, -223,
       -211, -198, -186, -174, -163, -151, -139, -128, -117, -105,
       -94, -83, -73, -62, -51, -41, -30, -20, -10, 0 >>

\* func DewPoint(tempF float64, relH int) float64.  There is no error result:
\* for relH = 0 math.Log returns -Inf, alpha is -Inf and dewPointC is
\* (-Inf)/(+Inf) = NaN; for relH < 0 math.Log returns NaN.
DewPoint(tempF, relH) ==
    LET a == 17625
        b == 243040
        t == TempFToC(tempF)
    IN  IF relH <= 0 THEN NaN
        ELSE LET alpha == LogTable[relH] + Round(a * t, b + t)
                 dewPointC == Round(b * alpha, a - alpha)
             IN  Num(TempCToF(dewPointC))

\* math.Pow(windSpeedMph, 0.16) for whole speeds 0..10, in thousandths
PowTable == << 0, 1000, 1117, 1192, 1248, 1294, 1332, 1365, 1395, 1421, 1445 >>

\* the formula of WindChill, summed in units of 1e-7
WindChillFormula(tempF, windSpeedMph) ==
    LET p == PowTable[windSpeedMph + 1]
    IN  Round(357400000 + 6215 * tempF - 357500 * p + 4275 * ((tempF * p) \div 1000),
              10000)

WindChillBothConditions(tempF, windSpeedMph) ==
    IF tempF > 50000 /\ windSpeedMph < 3 THEN tempF
    ELSE WindChillFormula(tempF, windSpeedMph)

\* func WindChill(tempF, windSpeedMph float64) float64
WindChill(tempF, windSpeedMph) ==
    IF tempF > 50000 \/ windSpeedMph < 3 THEN tempF
    ELSE WindChillFormula(tempF, windSpeedMph)

IndoorHumidityRecommendationStrict(outdoorTempF) ==
    IF outdoorTempF > 50000 THEN 50
    ELSE IF outdoorTempF > 40000 THEN 45
    ELSE IF outdoorTempF > 30000 THEN 40
    ELSE IF outdoorTempF > 20000 THEN 35
    ELSE IF outdoorTempF > 10000 THEN 30
    ELSE IF outdoorTempF > 0 THEN 25
    ELSE IF outdoorTempF > -10000 THEN 20
    ELSE 15

IndoorHumidityRecommendationSwapped(outdoorTempF) ==
    IF outdoorTempF >= 50000 THEN 50
    ELSE IF outdoorTempF >= 40000 THEN 45
    ELSE IF outdoorTempF >= 30000 THEN 35
    ELSE IF outdoorTempF >= 20000 THEN 40
    ELSE IF outdoorTempF >= 10000 THEN 30
    ELSE IF outdoorTempF >= 0 THEN 25
    ELSE IF outdoorTempF >= -10000 THEN 20
    ELSE 15

\* func IndoorHumidityRecommendation(outdoorTempF float64) int
IndoorHumidityRecommendation(outdoorTempF) ==
    IF outdoorTempF >= 50000 THEN 50
    ELSE IF outdoorTempF >= 40000 THEN 45
    ELSE IF outdoorTempF >= 30000 THEN 40
    ELSE IF outdoorTempF >= 20000 THEN 35
    ELSE IF outdoorTempF >= 10000 THEN 30
    ELSE IF outdoorTempF >= 0 THEN 25
    ELSE IF outdoorTempF >= -10000 THEN 20
    ELSE 15

\* libwx.WindChillFWithValidation(temp, windSpeed): the error result.  The
\* formula is valid only for a temperature of at most 50 degF and a wind of at
\* least 3 mph; outside of that the strict implementation signals a failure.
WindChillFWithValidation(temp, windSpeed) ==
    [err |-> temp > 50000 \/ windSpeed < 3]

\* libwx.WindChillCWithValidation(temp.C(), windSpeed): the same domain, the
\* temperature given in degC
WindChillCWithValidation(tempC, windSpeed) ==
    [err |-> tempC > 10000 \/ windSpeed < 3]

----------------------------------------------------------------------------
(* Field maps: main, lines 196-208, 236-272, 359-373 *)

\* xErr is TRUE when the computation returned an error (lines 189-194)
DerivedOutcomes ==
    [heatIdxFErr : BOOLEAN, heatIdxCErr : BOOLEAN,
     windChillFErr : BOOLEAN, windChillCErr : BOOLEAN,
     wetBulbTempFErr : BOOLEAN, wetBulbTempCErr : BOOLEAN]

\* the outcomes in which the degF and degC variants of one computation agree
AgreeingOutcomes ==
    {d \in DerivedOutcomes :
        /\ d.heatIdxFErr = d.heatIdxCErr
        /\ d.windChillFErr = d.windChillCErr
        /\ d.wetBulbTempFErr = d.wetBulbTempCErr}

\* as EcobeeData, wind_chill_f set only when its computation succeeded
EcobeeDataGuarded ==
    [k \in {"outdoor_temp", "outdoor_humidity", "barometric_pressure_mb",
            "barometric_pressure_inHg", "dew_point", "wind_speed", "wind_bearing",
            "visibility_mi", "recommended_max_indoor_humidity"}
           \cup (IF wx.windChillFErr THEN {} ELSE {"wind_chill_f"}) |->
        CASE k = "outdoor_temp"             -> "outdoorTemp"
          [] k = "outdoor_humidity"         -> "outdoorHumidity"
          [] k = "barometric_pressure_mb"   -> "pressureMillibar"
          [] k = "barometric_pressure_inHg" -> "pressureMillibar.InHg"
          [] k = "dew_point"                -> "dewpoint"
          [] k = "wind_speed"               -> "windSpeedMph"
          [] k = "wind_bearing"             -> "windBearing"
          [] k = "visibility_mi"            -> "visibilityMiles"
          [] k = "recommended_max_indoor_humidity" -> "IndoorHumidityRecommendationF(outdoorTemp)"
          [] k = "wind_chill_f"             -> "windChillF"]

\* ecobeeData := map[string]interface{}{ ... }
EcobeeData ==
    [k \in {"outdoor_temp", "outdoor_humidity", "barometric_pressure_mb",
            "barometric_pressure_inHg", "dew_point", "wind_speed", "wind_bearing",
            "visibility_mi", "recommended_max_indoor_humidity", "wind_chill_f"} |->
        CASE k = "outdoor_temp"             -> "outdoorTemp"
          [] k = "outdoor_humidity"         -> "outdoorHumidity"
          [] k = "barometric_pressure_mb"   -> "pressureMillibar"
          [] k = "barometric_pressure_inHg" -> "pressureMillibar.InHg"
          [] k = "dew_point"                -> "dewpoint"
          [] k = "wind_speed"               -> "windSpeedMph"
          [] k = "wind_bearing"             -> "windBearing"
          [] k = "visibility_mi"            -> "visibilityMiles"
          [] k = "recommended_max_indoor_humidity" -> "IndoorHumidityRecommendationF(outdoorTemp)"
          [] k = "wind_chill_f"             -> "windChillF"]

\* the literal with the recommendation under two keys, one per unit, as the
\* preceding version of main wrote it (part_001, lines 201-202)
WeatherLiteralPerUnit ==
    [k \in {"temp_f", "temp_c", "rel_humidity", "abs_humidity", "feels_like_f",
            "feels_like_c", "barometric_pressure_mb", "barometric_pressure_inHg",
            "dew_point_f", "dew_point_c", "wind_speed_mph", "wind_speed_kt",
            "wind_bearing", "visibility_mi", "recommended_max_indoor_humidity_f",
            "recommended_max_indoor_humidity_c", "cloud_cover"} |->
        CASE k = "recommended_max_indoor_humidity_f" -> "IndoorHumidityRecommendationF(outdoorTemp)"
          [] k = "recommended_max_indoor_humidity_c" -> "IndoorHumidityRecommendationC(outdoorTemp.C)"
          [] OTHER -> k]

\* the literal of lines 236-253
WeatherLiteral ==
    [k \in {"temp_f", "temp_c", "rel_humidity", "abs_humidity", "feels_like_f",
            "feels_like_c", "barometric_pressure_mb", "barometric_pressure_inHg",
            "dew_point_f", "dew_point_c", "wind_speed_mph", "wind_speed_kt",
            "wind_bearing", "visibility_mi", "recommended_max_indoor_humidity",
            "cloud_cover"} |->
        CASE k = "temp_f"                   -> "outdoorTemp"
          [] k = "temp_c"                   -> "outdoorTemp.C"
          [] k = "rel_humidity"             -> "outdoorHumidity"
          [] k = "abs_humidity"             -> "absHumidity"
          [] k = "feels_like_f"             -> "feelsLikeTemp"
          [] k = "feels_like_c"             -> "feelsLikeTemp.C"
          [] k = "barometric_pressure_mb"   -> "pressureMillibar"
          [] k = "barometric_pressure_inHg" -> "pressureMillibar.InHg"
          [] k = "dew_point_f"              -> "dewpoint"
          [] k = "dew_point_c"              -> "dewpoint.C"
          [] k = "wind_speed_mph"           -> "windSpeedMph"
          [] k = "wind_speed_kt"            -> "windSpeedMph.Knots"
          [] k = "wind_bearing"             -> "windBearing"
          [] k = "visibility_mi"            -> "visibilityMiles"
          [] k = "recommended_max_indoor_humidity" -> "IndoorHumidityRecommendationF(outdoorTemp)"
          [] k = "cloud_cover"              -> "cloudsPercent"]

\* if err == nil { m[k] = v }
SetIfNil(m, err, k, v) == IF ~err THEN MapSet(m, k, v) ELSE m

\* as WeatherData, heat_index_c guarded by heatIdxFErr and wet_bulb_c by
\* wetBulbTempFErr
WeatherDataSharedGuards(w) ==
    LET m1 == SetIfNil(WeatherLiteral, w.heatIdxFErr, "heat_index_f", "heatIdxF")
        m2 == SetIfNil(m1, w.heatIdxFErr, "heat_index_c", "heatIdxC")
        m3 == SetIfNil(m2, w.windChillFErr, "wind_chill_f", "windChillF")
        m4 == SetIfNil(m3, w.windChillCErr, "wind_chill_c", "windChillC")
        m5 == SetIfNil(m4, w.wetBulbTempFErr, "wet_bulb_f", "wetBulbTempF")
    IN  SetIfNil(m5, w.wetBulbTempFErr, "wet_bulb_c", "wetBulbTempC")

\* as WeatherData, the source entry of the bus metadata set while the map is
\* built
WeatherDataWithSource(w) ==
    LET m1 == SetIfNil(WeatherLiteral, w.heatIdxFErr, "heat_index_f", "heatIdxF")
        m2 == SetIfNil(m1, w.heatIdxCErr, "heat_index_c", "heatIdxC")
        m3 == SetIfNil(m2, w.windChillFErr, "wind_chill_f", "windChillF")
        m4 == SetIfNil(m3, w.windChillCErr, "wind_chill_c", "windChillC")
        m5 == SetIfNil(m4, w.wetBulbTempFErr, "wet_bulb_f", "wetBulbTempF")
        m6 == SetIfNil(m5, w.wetBulbTempCErr, "wet_bulb_c", "wetBulbTempC")
    IN  MapSet(m6, "source", source)

\* weatherData after lines 236-272
WeatherData(w) ==
    LET m1 == SetIfNil(WeatherLiteral, w.heatIdxFErr, "heat_index_f", "heatIdxF")
        m2 == SetIfNil(m1, w.heatIdxCErr, "heat_index_c", "heatIdxC")
        m3 == SetIfNil(m2, w.windChillFErr, "wind_chill_f", "windChillF")
        m4 == SetIfNil(m3, w.windChillCErr, "wind_chill_c", "windChillC")
        m5 == SetIfNil(m4, w.wetBulbTempFErr, "wet_bulb_f", "wetBulbTempF")
    IN  SetIfNil(m5, w.wetBulbTempCErr, "wet_bulb_c", "wetBulbTempC")

\* pollutionData := map[string]interface{}{ ... }
PollutionData ==
    [k \in {"aqi_1_5", "aqi_us_pm", "aqi_us_pm_name", "aqi_us", "aqi_us_name",
            "co", "no", "no2", "o3", "so2", "pm25", "pm10", "nh3"} |->
        CASE k = "aqi_1_5"        -> "polData.Main.Aqi"
          [] k = "aqi_us_pm"      -> "aqiUsParticulates.AQI"
          [] k = "aqi_us_pm_name" -> "aqiUsParticulates.Index.Name"
          [] k = "aqi_us"         -> "aqiUs.AQI"
          [] k = "aqi_us_name"    -> "aqiUs.Index.Name"
          [] k = "co"             -> "polData.Components.Co"
          [] k = "no"             -> "polData.Components.No"
          [] k = "no2"            -> "polData.Components.No2"
          [] k = "o3"             -> "polData.Components.O3"
          [] k = "so2"            -> "polData.Components.So2"
          [] k = "pm25"           -> "polData.Components.Pm25"
          [] k = "pm10"           -> "polData.Components.Pm10"
          [] k = "nh3"            -> "polData.Components.Nh3"]

WithMetadataNoTimestamp(m, c, t) ==
    MapSet(MapSet(MapSet(m, "source", source), "latitude", c.Latitude),
           "longitude", c.Longitude)

\* the four metadata entries added before json.Marshal (lines 303-306, 405-408)
WithMetadata(m, c, t) ==
    MapSet(MapSet(MapSet(MapSet(m, "source", source),
                         "latitude", c.Latitude),
                  "longitude", c.Longitude),
           "timestamp", t)

----------------------------------------------------------------------------
(* Tags: main, lines 218-221, 282-286, 384-388 *)

Abs(x) == IF x < 0 THEN -x ELSE x

Pad3(d) == IF d < 10 THEN "00" \o ToString(d)
           ELSE IF d < 100 THEN "0" \o ToString(d)
           ELSE ToString(d)

FormatFloatUnpadded(x) ==
    (IF x < 0 THEN "-" ELSE "") \o ToString(Abs(x) \div 1000) \o "."
        \o ToString(Abs(x) % 1000)

\* strconv.FormatFloat(x, 'f', 3, 64) for a coordinate held in thousandths of
\* a degree
FormatFloat3(x) ==
    (IF x < 0 THEN "-" ELSE "") \o ToString(Abs(x) \div 1000) \o "." \o Pad3(Abs(x) % 1000)

EcobeeTags(c) ==
    [k \in {thermostatNameTag, sourceTag} |->
        IF k = thermostatNameTag THEN c.EcobeeThermostatName ELSE source]

LocationTags(c) ==
    [k \in {sourceTag, latTag, lonTag} |->
        CASE k = sourceTag -> source
          [] k = latTag    -> FormatFloat3(c.Latitude)
          [] k = lonTag    -> FormatFloat3(c.Longitude)]

----------------------------------------------------------------------------
(* retry.Do(f, retry.Attempts(influxAttempts), retry.Delay(influxRetryDelay)) *)

\* retry.Attempts(0): retry until the function succeeds
MoreAttemptsUnbounded(made) == TRUE

MoreAttemptsOffByOne(made) == made <= influxAttempts

\* after `made` failed attempts the loop runs f again while made < attempts
MoreAttempts(made) == made < influxAttempts

WriteExhaustedFatal(name, next) ==
    Fatal("Failed to write " \o name \o " to influx")

WriteExhaustedSilent(name, next) ==
    /\ Goto(next)
    /\ UNCHANGED logs

\* retry.Do returned an error: log.Printf, and main goes on
WriteExhausted(name, next) ==
    /\ logs' = logs \cup {"Failed to write " \o name \o " to influx"}
    /\ Goto(next)

\* one attempt of the retried function: influxWriteAPI.WritePoint under a
\* timeout context; it returns nil or an error (a timeout is an error)
WriteAttempt(point, name, tags, fields, ts, next) ==
    \E ok \in BOOLEAN :
        /\ calls' = Append(calls, Ev("write", point, name, tags, fields, ts, ok))
        /\ IF ok
             THEN n' = 0 /\ Goto(next) /\ UNCHANGED logs
           ELSE IF MoreAttempts(n + 1)
             THEN n' = n + 1 /\ UNCHANGED <<pc, exitStatus, logs>>
           ELSE n' = 0 /\ WriteExhausted(name, next)

\* json.Marshal of the map, then mqttClient.Publish(topic, 0, false, payload)
PublishResults == {"marshal_error", "publish_error", "ok"}

\* the publish event: topic, payload and the qos and retained arguments
PublishEv(point, topic, fields, ok) ==
    With(Ev("publish", point, topic, EmptyMap, fields, 0, ok),
         [qos |-> 0, retained |-> FALSE])

\* as Publish, a failed publish being made again
PublishRetrying(point, topic, fields, next) ==
    \E res \in PublishResults :
        IF res = "marshal_error"
          THEN /\ logs' = logs \cup {"Failed to marshal " \o point \o " data for MQTT"}
               /\ UNCHANGED calls
               /\ Goto(next)
        ELSE IF res = "ok"
          THEN /\ calls' = Append(calls, PublishEv(point, topic, fields, TRUE))
               /\ UNCHANGED logs
               /\ Goto(next)
        ELSE /\ calls' = Append(Append(calls, PublishEv(point, topic, fields, FALSE)),
                                PublishEv(point, topic, fields, FALSE))
             /\ logs' = logs \cup {"Failed to publish " \o point \o " to MQTT"}
             /\ Goto(next)

Publish(point, topic, fields, next) ==
    \E res \in PublishResults :
        /\ IF res = "marshal_error"
             THEN /\ logs' = logs \cup {"Failed to marshal " \o point \o " data for MQTT"}
                  /\ UNCHANGED calls
             ELSE /\ calls' = Append(calls, PublishEv(point, topic, fields, res = "ok"))
                  /\ logs' = IF res = "ok" THEN logs
                             ELSE logs \cup {"Failed to publish " \o point \o " to MQTT"}
        /\ Goto(next)

----------------------------------------------------------------------------
(* Weather: main, lines 157-316 *)

NewCurrent ==
    /\ At("new_current")
    /\ \E ok \in BOOLEAN :
          IF ok THEN Goto(Follows("new_current")) /\ UNCHANGED logs
          ELSE Fatal("Failed to create OpenWeatherMap current weather client")
    /\ UNCHANGED <<config, influxConfigured, mqttConfigured, deferred, calls,
                   wx, ecobeeData, weatherData, pol, pollutionData, n>>

\* wx.CurrentByCoordinates(&configCoords): an error, or a reading with its Dt
\* in T
WeatherResults(T) == {[ok |-> FALSE, dt |-> 0]} \cup {[ok |-> TRUE, dt |-> t] : t \in T}

\* if err := wx.CurrentByCoordinates(...); err != nil { log.Fatalf(...) }
WeatherFetchFatal(res) == ~res.ok

\* lines 162-164; R is the set of results the provider may return
FetchWeatherFrom(R) ==
    /\ At("fetch_weather")
    /\ \E res \in R :
          /\ calls' = Append(calls, Call("fetch_weather", res.ok))
          /\ IF WeatherFetchFatal(res)
               THEN Fatal("Failed to get weather from OpenWeatherMap") /\ UNCHANGED wx
               ELSE /\ wx' = With(wx, [k \in (DOMAIN res) \ {"ok"} |-> res[k]])
                    /\ Goto(Follows("fetch_weather"))
                    /\ UNCHANGED logs
    /\ UNCHANGED <<config, influxConfigured, mqttConfigured, deferred,
                   ecobeeData, weatherData, pol, pollutionData, n>>

FetchWeather == FetchWeatherFrom(WeatherResults(SameTime))

\* the same step with the reading's Dt anywhere in Times
FetchWeatherAny == FetchWeatherFrom(WeatherResults(Times))

\* the results with the reading's values: wx.Main.Temp (degF, in
\* thousandths), wx.Main.Humidity (percent) and wx.Wind.Speed (mph)
ReadingResults ==
    {[ok |-> FALSE, dt |-> 0]}
        \cup [ok : {TRUE}, dt : SameTime, temp : {1000 * t : t \in Temps},
              humidity : Humidities, windSpeed : WindSpeeds]

\* the same step with the values of the reading drawn as well
FetchWeatherReading == FetchWeatherFrom(ReadingResults)

\* lines 167-194: weatherTime and the derived quantities; each of the six
\* validated computations returns a value or an error; D is the set of
\* outcomes the reading may produce
ComputeWeatherFrom(D) ==
    /\ At("compute_weather")
    /\ \E d \in D :
          wx' = [wx EXCEPT !.heatIdxFErr = d.heatIdxFErr,
                           !.heatIdxCErr = d.heatIdxCErr,
                           !.windChillFErr = d.windChillFErr,
                           !.windChillCErr = d.windChillCErr,
                           !.wetBulbTempFErr = d.wetBulbTempFErr,
                           !.wetBulbTempCErr = d.wetBulbTempCErr]
    /\ Goto(Follows("compute_weather"))
    /\ UNCHANGED <<logs, config, influxConfigured, mqttConfigured, deferred, calls,
                   ecobeeData, weatherData, pol, pollutionData, n>>

\* the degF and the degC variant of a computation validate the same reading
ComputeWeather == ComputeWeatherFrom(AgreeingOutcomes)

\* the same step with the six outcomes independent of each other
ComputeWeatherAny == ComputeWeatherFrom(DerivedOutcomes)

\* the outcomes of lines 189-194 for the reading held in w: the wind chill
\* validations decide from the reading, the heat index and the wet bulb
\* computations succeed or fail (each in both units)
StrictOutcomes(w) ==
    {d \in DerivedOutcomes :
        /\ d.heatIdxFErr = d.heatIdxCErr
        /\ d.wetBulbTempFErr = d.wetBulbTempCErr
        /\ d.windChillFErr = WindChillFWithValidation(w.temp, w.windSpeed).err
        /\ d.windChillCErr =
              WindChillCWithValidation(TempFToC(w.temp), w.windSpeed).err}

\* the same step computed from the values of the reading
ComputeWeatherStrict == ComputeWeatherFrom(StrictOutcomes(wx))

\* the weather half of the first version of main (part_001, lines 440-451):
\* the derived quantities come from wxlib.go and carry no error
ComputeWeatherLegacy ==
    /\ At("compute_weather")
    /\ wx' = With(wx, [dewpoint |-> DewPoint(wx.temp, wx.humidity),
                       windChill |-> WindChill(wx.temp, wx.windSpeed)])
    /\ Goto("write_weather_legacy")
    /\ UNCHANGED <<logs, config, influxConfigured, mqttConfigured, deferred, calls,
                   ecobeeData, weatherData, pol, pollutionData, n>>

\* TempFToC of a float64 that may be NaN
TempFToCOf(x) == IF x.nan THEN NaN ELSE Num(TempFToC(x.v))

\* the field map of the weather point in the first version of main
\* (part_001, lines 508-525)
LegacyWeatherData(w) ==
    [k \in {"temp_f", "temp_c", "rel_humidity", "feels_like_f", "feels_like_c",
            "barometric_pressure_mb", "barometric_pressure_inHg", "dew_point_f",
            "dew_point_c", "wind_speed_mph", "wind_bearing", "visibility_mi",
            "recommended_max_indoor_humidity", "wind_chill_f", "wind_chill_c",
            "cloud_cover"} |->
        CASE k = "temp_f"                   -> w.temp
          [] k = "temp_c"                   -> TempFToC(w.temp)
          [] k = "rel_humidity"             -> w.humidity
          [] k = "feels_like_f"             -> "feelsLikeTemp"
          [] k = "feels_like_c"             -> "TempFToC(feelsLikeTemp)"
          [] k = "barometric_pressure_mb"   -> "pressureMillibar"
          [] k = "barometric_pressure_inHg" -> "float64(pressureMillibar) / 33.864"
          [] k = "dew_point_f"              -> w.dewpoint
          [] k = "dew_point_c"              -> TempFToCOf(w.dewpoint)
          [] k = "wind_speed_mph"           -> w.windSpeed
          [] k = "wind_bearing"             -> "windBearing"
          [] k = "visibility_mi"            -> "visibilityMiles"
          [] k = "recommended_max_indoor_humidity" -> IndoorHumidityRecommendation(w.temp)
          [] k = "wind_chill_f"             -> w.windChill
          [] k = "wind_chill_c"             -> TempFToC(w.windChill)
          [] k = "cloud_cover"              -> "cloudsPercent"]

\* part_001, lines 497-533: the weather write of the first version of main
WriteWeatherLegacy ==
    /\ At("write_weather_legacy")
    /\ WriteAttempt("weather", config.WeatherMeasurementName, LocationTags(config),
                    LegacyWeatherData(wx), wx.dt, "new_pollution")
    /\ UNCHANGED <<config, influxConfigured, mqttConfigured, deferred,
                   wx, ecobeeData, weatherData, pol, pollutionData>>

EcobeeWriteWantedNever(c, ic) == FALSE

\* the ecobee write without the inner test of influxConfigured, as the
\* versions of main without the message bus had it (part_001, lines 150-182)
EcobeeWriteWantedUnguarded(c, ic) == c.WriteEcobeeWeatherMeasurement

\* if config.WriteEcobeeWeatherMeasurement { ... if influxConfigured { ... } }
EcobeeWriteWanted(c, ic) == c.WriteEcobeeWeatherMeasurement /\ ic

\* lines 196-233
WriteEcobee ==
    /\ At("ecobee")
    /\ ecobeeData' = IF config.WriteEcobeeWeatherMeasurement THEN EcobeeData ELSE ecobeeData
    /\ IF EcobeeWriteWanted(config, influxConfigured)
         THEN WriteAttempt("ecobee", ecobeeWeatherMeasurementName, EcobeeTags(config),
                           ecobeeData', wx.dt, Follows("ecobee"))
         ELSE Goto(Follows("ecobee")) /\ UNCHANGED <<logs, calls, n>>
    /\ UNCHANGED <<config, influxConfigured, mqttConfigured, deferred,
                   wx, weatherData, pol, pollutionData>>

\* lines 236-272
PrepareWeather ==
    /\ At("prepare_weather")
    /\ weatherData' = WeatherData(wx)
    /\ Goto(Follows("prepare_weather"))
    /\ UNCHANGED <<logs, config, influxConfigured, mqttConfigured, deferred, calls,
                   wx, ecobeeData, pol, pollutionData, n>>

\* lines 275-297
WriteWeather ==
    /\ At("write_weather")
    /\ IF influxConfigured
         THEN WriteAttempt("weather", config.WeatherMeasurementName, LocationTags(config),
                           weatherData, wx.dt, Follows("write_weather"))
         ELSE Goto(Follows("write_weather")) /\ UNCHANGED <<logs, calls, n>>
    /\ UNCHANGED <<config, influxConfigured, mqttConfigured, deferred,
                   wx, ecobeeData, weatherData, pol, pollutionData>>

\* lines 300-316
PublishWeather ==
    /\ At("publish_weather")
    /\ IF mqttConfigured
         THEN /\ weatherData' = WithMetadata(weatherData, config, wx.dt)
              /\ Publish("weather", config.MQTTTopicRoot \o "/weather", weatherData',
                         Follows("publish_weather"))
         ELSE /\ Goto(Follows("publish_weather"))
              /\ UNCHANGED <<logs, calls, weatherData>>
    /\ UNCHANGED <<config, influxConfigured, mqttConfigured, deferred,
                   wx, ecobeeData, pol, pollutionData, n>>

----------------------------------------------------------------------------
(* Pollution: main, lines 319-418 *)

NewPollution ==
    /\ At("new_pollution")
    /\ \E ok \in BOOLEAN :
          IF ok THEN Goto(Follows("new_pollution")) /\ UNCHANGED logs
          ELSE Fatal("Failed to create OpenWeatherMap pollution client")
    /\ UNCHANGED <<config, influxConfigured, mqttConfigured, deferred, calls,
                   wx, ecobeeData, weatherData, pol, pollutionData, n>>

\* polResp.PollutionByParams(...): an error, an empty List, or a List whose
\* first element carries its Dt in T
PollutionResults(T) ==
    {[status |-> "error", dt |-> 0], [status |-> "empty", dt |-> 0]}
        \cup {[status |-> "ok", dt |-> t] : t \in T}

PollutionFetchFatalOnErrorOnly(res) == res.status = "error"

\* err != nil, or len(polResp.List) == 0
PollutionFetchFatal(res) == res.status \in {"error", "empty"}

\* lines 323-332; R is the set of results the provider may return
FetchPollutionFrom(R) ==
    /\ At("fetch_pollution")
    /\ \E res \in R :
          /\ calls' = Append(calls, Call("fetch_pollution", res.status # "error"))
          /\ pol' = IF res.status = "error" THEN pol
                     ELSE [pol EXCEPT !.dt = res.dt,
                                      !.len = IF res.status = "ok" THEN 1 ELSE 0]
          /\ IF PollutionFetchFatal(res)
               THEN Fatal(IF res.status = "error"
                            THEN "Failed to get pollution from OpenWeatherMap"
                            ELSE "OpenWeatherMap didn't return any pollution information")
               ELSE Goto(Follows("fetch_pollution")) /\ UNCHANGED logs
    /\ UNCHANGED <<config, influxConfigured, mqttConfigured, deferred,
                   wx, ecobeeData, weatherData, pollutionData, n>>

FetchPollution == FetchPollutionFrom(PollutionResults(SameTime))

\* the same step with the reading's Dt anywhere in Times
FetchPollutionAny == FetchPollutionFrom(PollutionResults(Times))

AqiErrorIgnored(ok) == FALSE

\* if err != nil { log.Fatalf(...) } after aqi.Calculate
AqiErrorFatal(ok) == ~ok

\* lines 334-340
AqiParticulates ==
    /\ At("aqi_pm")
    /\ \E ok \in BOOLEAN :
          /\ pol' = [pol EXCEPT !.aqiUsParticulatesErr = ~ok]
          /\ IF AqiErrorFatal(ok)
               THEN Fatal("Failed to calculate US AQI for particulates")
               ELSE Goto(Follows("aqi_pm")) /\ UNCHANGED logs
    /\ UNCHANGED <<config, influxConfigured, mqttConfigured, deferred, calls,
                   wx, ecobeeData, weatherData, pollutionData, n>>

\* lines 341-350
AqiOverall ==
    /\ At("aqi_us")
    /\ \E ok \in BOOLEAN :
          /\ pol' = [pol EXCEPT !.aqiUsErr = ~ok]
          /\ IF AqiErrorFatal(ok)
               THEN Fatal("Failed to calculate overall US AQI")
               ELSE Goto(Follows("aqi_us")) /\ UNCHANGED logs
    /\ UNCHANGED <<config, influxConfigured, mqttConfigured, deferred, calls,
                   wx, ecobeeData, weatherData, pollutionData, n>>

PollutionTimeOfWeather(w, p) == w.dt

\* pollutionTime := time.Unix(int64(polData.Dt), 0)
PollutionTime(w, p) == p.dt

\* lines 359-374
PreparePollution ==
    /\ At("prepare_pollution")
    /\ pollutionData' = PollutionData
    /\ Goto(Follows("prepare_pollution"))
    /\ UNCHANGED <<logs, config, influxConfigured, mqttConfigured, deferred, calls,
                   wx, ecobeeData, weatherData, pol, n>>

\* lines 377-399
WritePollution ==
    /\ At("write_pollution")
    /\ IF influxConfigured
         THEN WriteAttempt("pollution", config.PollutionMeasurementName,
                           LocationTags(config), pollutionData, PollutionTime(wx, pol),
                           Follows("write_pollution"))
         ELSE Goto(Follows("write_pollution")) /\ UNCHANGED <<logs, calls, n>>
    /\ UNCHANGED <<config, influxConfigured, mqttConfigured, deferred,
                   wx, ecobeeData, weatherData, pol, pollutionData>>

\* lines 402-418
PublishPollution ==
    /\ At("publish_pollution")
    /\ IF mqttConfigured
         THEN /\ pollutionData' = WithMetadata(pollutionData, config,
                                                PollutionTime(wx, pol))
              /\ Publish("pollution", config.MQTTTopicRoot \o "/pollution",
                         pollutionData', Follows("publish_pollution"))
         ELSE /\ Goto(Follows("publish_pollution"))
              /\ UNCHANGED <<logs, calls, pollutionData>>
    /\ UNCHANGED <<config, influxConfigured, mqttConfigured, deferred,
                   wx, ecobeeData, weatherData, pol, n>>

ReturnSkippingDeferred ==
    /\ At("return")
    /\ Exit(0)
    /\ UNCHANGED <<logs, config, influxConfigured, mqttConfigured, deferred, calls,
                   wx, ecobeeData, weatherData, pol, pollutionData, n>>

\* line 419: main returns; the deferred mqttClient.Disconnect(250) runs and
\* the process exits with status 0
Return ==
    /\ At("return")
    /\ calls' = IF deferred THEN Append(calls, Call("disconnect", TRUE)) ELSE calls
    /\ Exit(0)
    /\ UNCHANGED <<logs, config, influxConfigured, mqttConfigured, deferred,
                   wx, ecobeeData, weatherData, pol, pollutionData, n>>

----------------------------------------------------------------------------
(* The run *)

Init ==
    /\ pc = "flags"
    /\ exitStatus = -1
    /\ logs = {}
    /\ config = NoConfig
    /\ influxConfigured = FALSE
    /\ mqttConfigured = FALSE
    /\ deferred = FALSE
    /\ calls = << >>
    /\ wx = [dt |-> 0, heatIdxFErr |-> FALSE, heatIdxCErr |-> FALSE,
             windChillFErr |-> FALSE, windChillCErr |-> FALSE,
             wetBulbTempFErr |-> FALSE, wetBulbTempCErr |-> FALSE]
    /\ ecobeeData = EmptyMap
    /\ weatherData = EmptyMap
    /\ pol = [dt |-> 0, len |-> 0, aqiUsParticulatesErr |-> FALSE, aqiUsErr |-> FALSE]
    /\ pollutionData = EmptyMap
    /\ n = 0

Next ==
    \/ ParseFlags
    \/ ReadConfig
    \/ ValidateConfig
    \/ SetupInflux
    \/ SetupMQTT
    \/ NewCurrent
    \/ FetchWeather
    \/ ComputeWeather
    \/ WriteEcobee
    \/ PrepareWeather
    \/ WriteWeather
    \/ PublishWeather
    \/ NewPollution
    \/ FetchPollution
    \/ AqiParticulates
    \/ AqiOverall
    \/ PreparePollution
    \/ WritePollution
    \/ PublishPollution
    \/ Return

\* The run over every configuration, with both readings taken at the same
\* instant and the degF and degC variants of each derived computation agreeing.
Spec == Init /\ [][Next]_vars

\* The run over the sink configurations, with the readings unconstrained:
\* each reading's timestamp anywhere in Times and the six derived
\* computations failing independently of each other.
NextReadings ==
    \/ ParseFlags
    \/ ReadSinkConfig
    \/ ValidateConfig
    \/ SetupInflux
    \/ SetupMQTT
    \/ NewCurrent
    \/ FetchWeatherAny
    \/ ComputeWeatherAny
    \/ WriteEcobee
    \/ PrepareWeather
    \/ WriteWeather
    \/ PublishWeather
    \/ NewPollution
    \/ FetchPollutionAny
    \/ AqiParticulates
    \/ AqiOverall
    \/ PreparePollution
    \/ WritePollution
    \/ PublishPollution
    \/ Return

SpecReadings == Init /\ [][NextReadings]_vars

\* The run over the sink configurations that write the ecobee_weather
\* measurement, with each reading's timestamp anywhere in Times.
NextTimes ==
    \/ ParseFlags
    \/ ReadEcobeeConfig
    \/ ValidateConfig
    \/ SetupInflux
    \/ SetupMQTT
    \/ NewCurrent
    \/ FetchWeatherAny
    \/ ComputeWeather
    \/ WriteEcobee
    \/ PrepareWeather
    \/ WriteWeather
    \/ PublishWeather
    \/ NewPollution
    \/ FetchPollutionAny
    \/ AqiParticulates
    \/ AqiOverall
    \/ PreparePollution
    \/ WritePollution
    \/ PublishPollution
    \/ Return

SpecTimes == Init /\ [][NextTimes]_vars

\* The run up to the delivery of the weather point, over the values of the
\* reading (temperature, humidity, wind speed), in either version of main: the
\* current one, whose derived quantities carry an error result, and the first
\* one, which computes them with wxlib.go.
NextFormulas ==
    \/ ParseFlags
    \/ ReadFormulaConfig
    \/ ValidateConfig
    \/ SetupInflux
    \/ SetupMQTT
    \/ NewCurrent
    \/ FetchWeatherReading
    \/ ComputeWeatherStrict
    \/ ComputeWeatherLegacy
    \/ WriteEcobee
    \/ PrepareWeather
    \/ WriteWeather
    \/ PublishWeather
    \/ WriteWeatherLegacy

SpecFormulas == Init /\ [][NextFormulas]_vars

\* The same run under the assumption that every external call returns: main
\* is one sequential goroutine, so whenever a step is possible one is taken.
SpecFair == Init /\ [][Next]_vars /\ WF_vars(Next)

----------------------------------------------------------------------------
(* Vocabulary of the properties *)

\* json.Unmarshal has filled config
HasConfig == "InfluxServer" \in DOMAIN config

\* the process has ended
Ended == exitStatus # -1

\* main returned (line 419)
Completed == pc = "return" /\ exitStatus = 0

\* the run ended in a fatal abort
Aborted == exitStatus \in {1, 2}

\* statement p has been executed and control has moved beyond it
Passed(p) == Before(p, pc)

DeliveryOps == {"write", "publish"}

Deliveries == {i \in Idx : calls[i].op \in DeliveryOps}

DeliveriesOf(p) == {i \in Deliveries : calls[i].point = p}

\* every attempt of the retry loop of point p failed
Exhausted(p) ==
    /\ Cardinality(Writes(p)) = influxAttempts
    /\ \A i \in Writes(p) : ~calls[i].ok

\* the message-bus delivery of point p was attempted: the payload was
\* serialized and, unless that failed, Publish was invoked
BusDeliveryAttempted(p) ==
    \/ Publishes(p) # {}
    \/ ("Failed to marshal " \o p \o " data for MQTT") \in logs

MetadataKeys == {"source", "latitude", "longitude", "timestamp"}

----------------------------------------------------------------------------
(* C1 *)

\* C1: if neither sink is configured, the run aborts as a fatal configuration
\* error and no network operation (health probe, broker connect, provider
\* call, write, publish) is ever performed in that run.
C1_NoSinkAbortsBeforeNetwork ==
    (HasConfig /\ ~InfluxConfigured(config) /\ ~MqttConfigured(config)) =>
        /\ calls = << >>
        /\ pc = "validate"
        /\ Ended => exitStatus = 1

\* a run with every required name set and no sink configured has aborted
C1_Witness ==
    /\ HasConfig
    /\ config.APIKey # "" /\ config.WeatherMeasurementName # ""
    /\ ~config.WriteEcobeeWeatherMeasurement
    /\ ~InfluxConfigured(config) /\ ~MqttConfigured(config)
    /\ exitStatus = 1
    /\ "At least one output (InfluxDB or MQTT) must be configured." \in logs

----------------------------------------------------------------------------
(* C2 *)

\* no ecobee_weather point, and no payload holding its field-set, is ever
\* published to the message bus
EcobeeNeverPublished ==
    \A i \in Ops("publish") :
        /\ calls[i].point # "ecobee"
        /\ calls[i].target # ecobeeWeatherMeasurementName
        /\ ~(Keys(EcobeeData) \subseteq Keys(calls[i].fields))

\* C2 as stated: with legacy-compatibility mode enabled, every run that
\* reaches the delivery phase writes the ecobee_weather point to the
\* database, under every sink configuration, and never publishes it.
C2_AsStated ==
    /\ (HasConfig /\ config.WriteEcobeeWeatherMeasurement /\ Passed("ecobee")) =>
            Writes("ecobee") # {}
    /\ EcobeeNeverPublished

\* C2 amended: with legacy-compatibility mode enabled and the database sink
\* configured, every run that reaches the delivery phase writes the
\* ecobee_weather point (measurement ecobee_weather, its own field-set) to
\* the database; under no sink configuration is it published to the bus.
C2_EcobeeToDatabaseOnly ==
    /\ (HasConfig /\ config.WriteEcobeeWeatherMeasurement /\ influxConfigured
            /\ Passed("ecobee")) =>
            /\ Writes("ecobee") # {}
            /\ \A i \in Writes("ecobee") :
                  /\ calls[i].target = ecobeeWeatherMeasurementName
                  /\ Keys(calls[i].fields) = Keys(EcobeeData)
    /\ EcobeeNeverPublished

\* both sinks configured, legacy mode on: the run completed, the ecobee
\* point went to the database and both publishes were made
C2_Witness ==
    /\ Completed
    /\ config.WriteEcobeeWeatherMeasurement /\ influxConfigured /\ mqttConfigured
    /\ Writes("ecobee") # {}
    /\ Publishes("weather") # {} /\ Publishes("pollution") # {}

----------------------------------------------------------------------------
(* C3 *)

\* the log records a message-bus failure produces
BusLogs ==
    {"Failed to connect to MQTT broker",
     "Failed to marshal weather data for MQTT", "Failed to publish weather to MQTT",
     "Failed to marshal pollution data for MQTT", "Failed to publish pollution to MQTT"}

\* C3: with both sinks configured, a run in which nothing fails but the
\* message bus (health probe passed or disabled, providers and AQI succeed,
\* every database write succeeds) ends with the weather and the pollution
\* point written to the database, whatever the bus did (connect failed, or
\* any publish failed).
C3_BusOutageNeverBlocksDatabase ==
    (Ended /\ HasConfig /\ influxConfigured /\ mqttConfigured /\ logs \subseteq BusLogs
        /\ \A i \in Ops("write") : calls[i].ok) =>
        /\ \E i \in Writes("weather") : calls[i].ok
        /\ \E i \in Writes("pollution") : calls[i].ok

----------------------------------------------------------------------------
(* C4 *)

\* the statements at which main can end with a non-zero status
FatalStatements ==
    {"flags", "read_config", "validate", "influx_setup", "mqtt_setup", "new_current",
     "fetch_weather", "new_pollution", "fetch_pollution", "aqi_pm", "aqi_us"}

\* C4: a database write that fails on all its attempts is logged, does not
\* end the run (the run ends with a non-zero status only at a fatal
\* statement, never in a delivery step), the message-bus delivery of the same
\* point is still attempted when the bus is configured, and a run that
\* reaches the end of main exits with status 0 whatever deliveries failed.
C4_DeliveryFailuresNotFatal ==
    /\ Aborted => pc \in FatalStatements
    /\ (Ended /\ pc = "return") => exitStatus = 0
    /\ \A p \in Points :
          Exhausted(p) =>
              ("Failed to write " \o calls[CHOOSE i \in Writes(p) : TRUE].target
                  \o " to influx") \in logs
    /\ (Exhausted("weather") /\ mqttConfigured /\ Passed("publish_weather")) =>
            BusDeliveryAttempted("weather")
    /\ (Exhausted("weather") /\ ~Aborted) =>
            (pc # "write_weather" /\ (Ended => Completed))
    /\ (Exhausted("pollution") /\ mqttConfigured /\ Passed("publish_pollution")) =>
            BusDeliveryAttempted("pollution")
    /\ (Exhausted("pollution") /\ Ended) => Completed

\* every database delivery of a completed run was exhausted; the weather
\* publish then succeeded and the pollution publish failed
C4_Witness ==
    /\ Completed
    /\ Exhausted("ecobee") /\ Exhausted("weather") /\ Exhausted("pollution")
    /\ \E i \in Publishes("weather") : calls[i].ok
    /\ \E i \in Publishes("pollution") : ~calls[i].ok

----------------------------------------------------------------------------
(* C5 *)

\* the database delivery of point p is over: its statement has been passed
DeliveryStatement(p) ==
    CASE p = "ecobee"    -> "ecobee"
      [] p = "weather"   -> "write_weather"
      [] p = "pollution" -> "write_pollution"

\* point p is one the run delivers to the database
DatabasePoint(p) ==
    /\ influxConfigured
    /\ p = "ecobee" => config.WriteEcobeeWeatherMeasurement

\* C5: each point delivered to the database gets between 1 and 3 write
\* attempts; only the last attempt can be a success (no attempt follows a
\* success, so at most one write succeeds), and a delivery that ended without
\* a success made all 3 attempts.
C5_WriteAttemptsBounded ==
    \A p \in Points :
        /\ Cardinality(Writes(p)) <= 3
        /\ \A i, j \in Writes(p) : i < j => ~calls[i].ok
        /\ Cardinality({i \in Writes(p) : calls[i].ok}) <= 1
        /\ (HasConfig /\ DatabasePoint(p) /\ Passed(DeliveryStatement(p))) =>
              /\ Cardinality(Writes(p)) >= 1
              /\ (\A i \in Writes(p) : ~calls[i].ok) => Cardinality(Writes(p)) = 3

\* a completed run in which the ecobee point took 3 failed attempts, the
\* weather point succeeded on its 2nd and the pollution point on its 3rd
C5_Witness ==
    /\ Completed
    /\ Exhausted("ecobee")
    /\ Cardinality(Writes("weather")) = 2
    /\ \E i \in Writes("weather") : calls[i].ok
    /\ Cardinality(Writes("pollution")) = 3
    /\ \E i \in Writes("pollution") : calls[i].ok

----------------------------------------------------------------------------
(* C6 *)

\* C6: with the database configured and the health check not disabled, the
\* probe is the first external operation of the run, so it precedes every
\* provider call and every delivery; a probe that errors or reports a status
\* other than "pass" ends the run with no further operation; with the check
\* disabled no probe is issued.
C6_HealthProbeFirst ==
    /\ (HasConfig /\ influxConfigured /\ ~config.InfluxHealthCheckDisabled
            /\ Passed("influx_setup")) =>
            /\ Ops("health") = {1}
            /\ calls[1].target = "pass"
    /\ \A i \in Ops("health") :
          /\ i = 1
          /\ calls[i].target # "pass" =>
                /\ Aborted
                /\ Len(calls) = 1
    /\ \A i \in Idx :
          (calls[i].op \in ProviderOps \cup DeliveryOps
              /\ influxConfigured /\ ~config.InfluxHealthCheckDisabled) =>
              \E h \in Ops("health") : h < i /\ calls[h].target = "pass"
    /\ (HasConfig /\ config.InfluxHealthCheckDisabled) => Ops("health") = {}

\* the probe reported a status other than "pass" and the run has aborted
C6_Witness ==
    /\ Aborted
    /\ pc = "influx_setup"
    /\ \E i \in Ops("health") : calls[i].target = "fail"

----------------------------------------------------------------------------
(* C7 *)

\* the place of an external operation in the order of main
Rank(e) ==
    CASE e.op = "health"          -> 1
      [] e.op = "connect"         -> 2
      [] e.op = "fetch_weather"   -> 3
      [] e.op = "write" /\ e.point = "ecobee"      -> 4
      [] e.op = "write" /\ e.point = "weather"     -> 5
      [] e.op = "publish" /\ e.point = "weather"   -> 6
      [] e.op = "fetch_pollution" -> 7
      [] e.op = "write" /\ e.point = "pollution"   -> 8
      [] e.op = "publish" /\ e.point = "pollution" -> 9
      [] e.op = "disconnect"      -> 10

\* C7 as stated: the pollution provider fetch completes before any weather
\* point is delivered to any sink.
C7_AsStated ==
    \A i \in DeliveriesOf("weather") \cup DeliveriesOf("ecobee") :
        \E j \in Ops("fetch_pollution") : j < i

\* C7 amended: a run is strictly sequential in the order fetch weather,
\* compute, deliver the weather points (ecobee write, weather write, weather
\* publish), fetch pollution, compute AQI, deliver the pollution point (write,
\* publish): every delivery of a weather point precedes the pollution fetch,
\* the pollution fetch precedes every pollution delivery, and every operation
\* other than a retried write is invoked at most once.
C7_SequentialOrder ==
    /\ weatherData # EmptyMap => \E j \in Ops("fetch_weather") : calls[j].ok
    /\ Ops("fetch_pollution") # {} => weatherData # EmptyMap
    /\ pollutionData # EmptyMap =>
          /\ \E j \in Ops("fetch_pollution") : calls[j].ok
          /\ ~pol.aqiUsParticulatesErr /\ ~pol.aqiUsErr
    /\ DeliveriesOf("pollution") # {} => pollutionData # EmptyMap
    /\ \A i \in 1..(Len(calls) - 1) :
          /\ Rank(calls[i]) <= Rank(calls[i + 1])
          /\ Rank(calls[i]) = Rank(calls[i + 1]) => calls[i].op = "write"
    /\ \A i \in DeliveriesOf("weather") \cup DeliveriesOf("ecobee") :
          \A j \in Ops("fetch_pollution") : i < j
    /\ \A i \in DeliveriesOf("pollution") :
          \E j \in Ops("fetch_pollution") : j < i /\ calls[j].ok
    /\ \A i \in Deliveries : \E j \in Ops("fetch_weather") : j < i /\ calls[j].ok

\* a completed run with both sinks and legacy mode: every kind of operation
\* was invoked, the weather publish before the pollution fetch
C7_Witness ==
    /\ Completed
    /\ \A r \in 1..10 : \E i \in Idx : Rank(calls[i]) = r
    /\ \E i \in Publishes("weather") : \E j \in Ops("fetch_pollution") : i < j

----------------------------------------------------------------------------
(* C8 *)

\* the sixteen fields every weather point carries
MandatoryWeatherKeys ==
    {"temp_f", "temp_c", "rel_humidity", "abs_humidity", "feels_like_f",
     "feels_like_c", "barometric_pressure_mb", "barometric_pressure_inHg",
     "dew_point_f", "dew_point_c", "wind_speed_mph", "wind_speed_kt",
     "wind_bearing", "visibility_mi", "recommended_max_indoor_humidity",
     "cloud_cover"}

\* the optional fields whose own computation succeeded
SucceededKeys ==
    {k \in {"heat_index_f", "heat_index_c", "wind_chill_f", "wind_chill_c",
            "wet_bulb_f", "wet_bulb_c"} :
        CASE k = "heat_index_f" -> ~wx.heatIdxFErr
          [] k = "heat_index_c" -> ~wx.heatIdxCErr
          [] k = "wind_chill_f" -> ~wx.windChillFErr
          [] k = "wind_chill_c" -> ~wx.windChillCErr
          [] k = "wet_bulb_f"   -> ~wx.wetBulbTempFErr
          [] k = "wet_bulb_c"   -> ~wx.wetBulbTempCErr}

\* C8: for every combination of outcomes of the six derived computations,
\* the weather point handed to a sink holds the mandatory fields and exactly
\* those optional fields whose own computation succeeded (plus, on the bus,
\* the metadata), and the point is emitted whatever the outcomes: written to
\* the database when it is configured, delivered to the bus when it is.
C8_WeatherFieldSet ==
    /\ \A i \in Writes("weather") :
          Keys(calls[i].fields) = MandatoryWeatherKeys \cup SucceededKeys
    /\ \A i \in Publishes("weather") :
          Keys(calls[i].fields) \ MetadataKeys = MandatoryWeatherKeys \cup SucceededKeys
    /\ (influxConfigured /\ Passed("write_weather")) => Writes("weather") # {}
    /\ (mqttConfigured /\ Passed("publish_weather")) => BusDeliveryAttempted("weather")

\* every degF computation failed and every degC computation succeeded; the
\* point was written and published
C8_Witness ==
    /\ wx.heatIdxFErr /\ wx.windChillFErr /\ wx.wetBulbTempFErr
    /\ ~wx.heatIdxCErr /\ ~wx.windChillCErr /\ ~wx.wetBulbTempCErr
    /\ Writes("weather") # {}
    /\ Publishes("weather") # {}

----------------------------------------------------------------------------
(* C9 *)

AqiKeys == {"aqi_us_pm", "aqi_us_pm_name", "aqi_us", "aqi_us_name"}

\* C9: if either AQI computation fails the run aborts and no pollution point
\* reaches any sink (no write, no publish, the pollution field map is never
\* built); every pollution point that is emitted carries the AQI fields.
C9_AqiFailureAborts ==
    /\ (pol.aqiUsParticulatesErr \/ pol.aqiUsErr) =>
          /\ exitStatus = 1
          /\ pc \in {"aqi_pm", "aqi_us"}
          /\ DeliveriesOf("pollution") = {}
          /\ pollutionData = EmptyMap
    /\ \A i \in DeliveriesOf("pollution") : AqiKeys \subseteq Keys(calls[i].fields)

\* the overall AQI computation failed after the weather point was delivered
C9_Witness ==
    /\ pol.aqiUsErr
    /\ ~pol.aqiUsParticulatesErr
    /\ exitStatus = 1
    /\ DeliveriesOf("weather") # {}

----------------------------------------------------------------------------
(* C10 *)

\* C10: a failed weather provider call aborts the run with no point of any
\* kind delivered to any sink; a pollution provider call that fails or
\* returns an empty list aborts the run with no pollution point delivered.
C10_ProviderFailuresFatal ==
    /\ \A i \in Ops("fetch_weather") :
          ~calls[i].ok =>
              /\ exitStatus = 1
              /\ pc = "fetch_weather"
              /\ Deliveries = {}
    /\ \A i \in Ops("fetch_pollution") :
          (~calls[i].ok \/ pol.len = 0) =>
              /\ exitStatus = 1
              /\ pc = "fetch_pollution"
              /\ DeliveriesOf("pollution") = {}

\* the pollution provider returned an empty list after the weather point
\* was delivered, and the run has aborted
C10_Witness ==
    /\ \E i \in Ops("fetch_pollution") : calls[i].ok
    /\ pol.len = 0
    /\ exitStatus = 1
    /\ DeliveriesOf("weather") # {}

----------------------------------------------------------------------------
(* C11 *)

\* the measurement name under which point p is written
MeasurementName(p) ==
    CASE p = "ecobee"    -> ecobeeWeatherMeasurementName
      [] p = "weather"   -> config.WeatherMeasurementName
      [] p = "pollution" -> config.PollutionMeasurementName

\* the record log.Printf writes when the retried write of point p gave up
WriteFailureRecord(p) == "Failed to write " \o MeasurementName(p) \o " to influx"

\* the records that report a delivery error
DeliveryRecords ==
    {"Failed to write " \o nm \o " to influx" :
        nm \in {"", "weather", "pollution", ecobeeWeatherMeasurementName}}
    \cup {"Failed to marshal weather data for MQTT", "Failed to publish weather to MQTT",
          "Failed to marshal pollution data for MQTT",
          "Failed to publish pollution to MQTT"}

\* the records written on the way to a fatal exit
FatalRecords ==
    {"Unable to read config file", "Unable to parse config file",
     "api_key must be set in the config file.",
     "wx_measurement_name must be set in the config file.",
     "ecobee_thermostat_name must be set in the config file if write_ecobee_wx_measurement is set.",
     "At least one output (InfluxDB or MQTT) must be configured.",
     "Failed to check InfluxDB health", "panic: nil pointer dereference",
     "InfluxDB did not pass health check", "Failed to connect to MQTT broker",
     "Failed to create OpenWeatherMap current weather client",
     "Failed to get weather from OpenWeatherMap",
     "Failed to create OpenWeatherMap pollution client",
     "Failed to get pollution from OpenWeatherMap",
     "OpenWeatherMap didn't return any pollution information",
     "Failed to calculate US AQI for particulates",
     "Failed to calculate overall US AQI"}

\* one of the six optional computations returned an error
DerivedFieldFailed ==
    \/ wx.heatIdxFErr \/ wx.heatIdxCErr \/ wx.windChillFErr \/ wx.windChillCErr
    \/ wx.wetBulbTempFErr \/ wx.wetBulbTempCErr

\* every absorbed delivery error of the run so far has its record in logs
DeliveryErrorsLogged ==
    \A p \in Points :
        /\ Exhausted(p) => WriteFailureRecord(p) \in logs
        /\ \A i \in Publishes(p) :
              ~calls[i].ok => ("Failed to publish " \o p \o " to MQTT") \in logs

\* C11 as stated: every absorbed error has a diagnostic record; for a failed
\* optional derived-field computation that is a record other than those of
\* the delivery errors and of the fatal exits.
C11_AsStated ==
    /\ DeliveryErrorsLogged
    /\ (DerivedFieldFailed /\ Passed("prepare_weather")) =>
            \E r \in logs : r \notin DeliveryRecords \cup FatalRecords

\* C11 amended: every absorbed delivery error produces a log record naming
\* the measurement or point and the sink: an exhausted database write, a
\* failed publish, and a failed serialization (a step of the bus delivery
\* block that invokes no publish logs the marshal failure); a failed optional
\* derived-field computation is absorbed by omitting the field and produces
\* no log record.
C11_DeliveryErrorsLogged ==
    [][/\ DeliveryErrorsLogged'
       /\ \A p \in {"weather", "pollution"} :
             (At("publish_" \o p) /\ mqttConfigured /\ calls' = calls) =>
                 ("Failed to marshal " \o p \o " data for MQTT") \in logs'
       /\ pc \in {"compute_weather", "prepare_weather"} => logs' = logs
       /\ logs' \subseteq DeliveryRecords \cup FatalRecords]_vars

\* a completed run in which a derived computation failed, the weather write
\* was exhausted, the weather serialization failed and the pollution publish
\* failed
C11_Witness ==
    /\ Completed
    /\ wx.heatIdxFErr
    /\ Exhausted("weather")
    /\ "Failed to marshal weather data for MQTT" \in logs
    /\ \E i \in Publishes("pollution") : ~calls[i].ok

----------------------------------------------------------------------------
(* C12 *)

\* the timestamp of the reading point p is built from
ReadingTime(p) == IF p = "pollution" THEN pol.dt ELSE wx.dt

\* the field-set main builds for point p, before any metadata is added
BuiltFields(p) == IF p = "pollution" THEN PollutionData ELSE WeatherData(wx)

\* C12: for the weather and the pollution point, the payload published to the
\* bus holds exactly the keys of the point's field-set (the one written to the
\* database, when it is) plus source, latitude, longitude and timestamp; no
\* point field is a metadata key, and every point field keeps its value;
\* source is "openweathermap", latitude and longitude are the configured
\* coordinates and timestamp is the point's own; the weather payload goes to
\* {root}/weather only and the pollution payload to {root}/pollution only.
C12_PayloadIsFieldsPlusMetadata ==
    /\ \A i \in Ops("publish") : calls[i].point \in {"weather", "pollution"}
    /\ \A p \in {"weather", "pollution"} :
          \A i \in Publishes(p) :
              /\ Keys(calls[i].fields) = Keys(BuiltFields(p)) \cup MetadataKeys
              /\ Keys(BuiltFields(p)) \cap MetadataKeys = {}
              /\ \A k \in Keys(BuiltFields(p)) : calls[i].fields[k] = BuiltFields(p)[k]
              /\ calls[i].fields["source"] = "openweathermap"
              /\ calls[i].fields["latitude"] = config.Latitude
              /\ calls[i].fields["longitude"] = config.Longitude
              /\ calls[i].fields["timestamp"] = ReadingTime(p)
              /\ calls[i].target = config.MQTTTopicRoot \o "/" \o p
              /\ \A j \in Writes(p) :
                    /\ Keys(calls[i].fields) = Keys(calls[j].fields) \cup MetadataKeys
                    /\ Keys(calls[j].fields) \cap MetadataKeys = {}
                    /\ \A k \in Keys(calls[j].fields) :
                          calls[i].fields[k] = calls[j].fields[k]
                    /\ calls[i].fields["timestamp"] = calls[j].ts
    /\ \A p \in {"weather", "pollution"} :
          Cardinality(Publishes(p)) <= 1

\* a completed run with both sinks: both points written and published, the
\* two readings taken at different instants, the weather point without its
\* wind chill fields
C12_Witness ==
    /\ Completed
    /\ wx.dt # pol.dt
    /\ wx.windChillFErr /\ wx.windChillCErr /\ ~wx.wetBulbTempFErr
    /\ \E i \in Writes("weather") : calls[i].ok
    /\ \E i \in Writes("pollution") : calls[i].ok
    /\ Publishes("weather") # {} /\ Publishes("pollution") # {}

----------------------------------------------------------------------------
(* C13 *)

\* C13: a configuration with an empty api_key, an empty wx_measurement_name,
\* or legacy-compatibility mode enabled with an empty thermostat name ends
\* the run at the validation, with status 1 and before any health probe,
\* broker connect, provider call, write or publish; and the ecobee_weather
\* point is emitted only in runs where the flag is set and the thermostat
\* name is not empty.
C13_ConfigErrorsBeforeNetwork ==
    /\ (HasConfig /\ (\/ config.APIKey = ""
                       \/ config.WeatherMeasurementName = ""
                       \/ (config.WriteEcobeeWeatherMeasurement
                              /\ config.EcobeeThermostatName = ""))) =>
            /\ calls = << >>
            /\ pc = "validate"
            /\ Ended => exitStatus = 1
    /\ \A i \in Idx :
          (calls[i].point = "ecobee" \/ calls[i].target = ecobeeWeatherMeasurementName) =>
              /\ config.WriteEcobeeWeatherMeasurement
              /\ config.EcobeeThermostatName # ""
              /\ calls[i].tags[thermostatNameTag] = config.EcobeeThermostatName

\* both sinks configured, every required name set, legacy mode on without a
\* thermostat name: the run has aborted at the validation
C13_Witness ==
    /\ HasConfig
    /\ config.APIKey # "" /\ config.WeatherMeasurementName # ""
    /\ InfluxConfigured(config) /\ MqttConfigured(config)
    /\ config.WriteEcobeeWeatherMeasurement /\ config.EcobeeThermostatName = ""
    /\ exitStatus = 1
    /\ pc = "validate"
    /\ calls = << >>

----------------------------------------------------------------------------
(* C14 *)

\* C14: pollution data is published to {topic_root}/pollution only if a
\* pollution measurement is configured: with pollution_measurement_name empty
\* no message is published to the pollution topic.
C14_PollutionPublishNeedsMeasurement ==
    \A i \in Ops("publish") :
        (calls[i].point = "pollution"
            \/ calls[i].target = config.MQTTTopicRoot \o "/pollution") =>
            config.PollutionMeasurementName # ""

----------------------------------------------------------------------------
(* C15 *)

\* the provider has returned a reading
HasReading == "temp" \in DOMAIN wx

\* the derived quantities were computed by the first version of main
Legacy == "windChill" \in DOMAIN wx

WindChillKeys == {"wind_chill_f", "wind_chill_c"}

\* C15: for every reading with a temperature above 50 degF or a wind below
\* 3 mph, WindChill of wxlib.go returns exactly the temperature (and that is
\* what the first version of main writes as wind_chill_f), while the current
\* version gets an error from both validated computations and its weather
\* point carries neither wind_chill_f nor wind_chill_c.
C15_WindChillOutsideDomain ==
    (HasReading /\ (wx.temp > 50000 \/ wx.windSpeed < 3)) =>
        IF Legacy
          THEN /\ wx.windChill = wx.temp
               /\ \A i \in Writes("weather") :
                     /\ calls[i].fields["wind_chill_f"] = wx.temp
                     /\ calls[i].fields["wind_chill_c"] = TempFToC(wx.temp)
          ELSE /\ Passed("compute_weather") => (wx.windChillFErr /\ wx.windChillCErr)
               /\ Passed("prepare_weather") => Keys(weatherData) \cap WindChillKeys = {}
               /\ \A i \in Writes("weather") :
                     Keys(calls[i].fields) \cap WindChillKeys = {}

\* the current version has written the weather point of a reading at 72 degF
\* with a wind of 5 mph: both wind chill fields are absent
C15_Witness ==
    /\ HasReading /\ ~Legacy
    /\ wx.temp = 72000 /\ wx.windSpeed = 5
    /\ \E i \in Writes("weather") :
          calls[i].ok /\ Keys(calls[i].fields) \cap WindChillKeys = {}

----------------------------------------------------------------------------
(* C16 *)

DewPointKeys == {"dew_point", "dew_point_f", "dew_point_c"}

\* C16: for a relative humidity of 0 or less the dew point computation fails,
\* it returns no value, so no point handed to a sink carries a dew point
\* field; for a humidity in 1..100 it returns a number that is at most the
\* temperature (to the precision of the arithmetic, a fortieth of a degree).
C16_DewPointFailsWithoutHumidity ==
    HasReading =>
        /\ wx.humidity <= 0 =>
              /\ Legacy => wx.dewpoint.nan
              /\ \A i \in Deliveries : Keys(calls[i].fields) \cap DewPointKeys = {}
        /\ (wx.humidity \in 1..100 /\ Legacy) =>
              /\ ~wx.dewpoint.nan
              /\ wx.dewpoint.v <= wx.temp + 25

----------------------------------------------------------------------------
(* C17 *)

\* the weather writes of the first version of main
LegacyWrites == IF Legacy THEN Writes("weather") ELSE {}

\* the recommendation written for the reading
Recommended(i) == calls[i].fields["recommended_max_indoor_humidity"]

\* C17: for every outdoor temperature T (degF) the recommendation is defined
\* and is 50 if T >= 50, 45 if 40 <= T < 50, 40 if 30 <= T < 40, 35 if
\* 20 <= T < 30, 30 if 10 <= T < 20, 25 if 0 <= T < 10, 20 if -10 <= T < 0
\* and 15 if T < -10; it is 50, 45, 40, 35, 30, 25, 20, 15 at 50, 40, 30, 20,
\* 10, 0, -10, -20.
C17_IndoorHumiditySteps ==
    \A i \in LegacyWrites :
        LET T == wx.temp
            r == Recommended(i)
        IN  /\ r \in {15, 20, 25, 30, 35, 40, 45, 50}
            /\ T >= 50000 => r = 50
            /\ (40000 <= T /\ T < 50000) => r = 45
            /\ (30000 <= T /\ T < 40000) => r = 40
            /\ (20000 <= T /\ T < 30000) => r = 35
            /\ (10000 <= T /\ T < 20000) => r = 30
            /\ (0 <= T /\ T < 10000) => r = 25
            /\ (-10000 <= T /\ T < 0) => r = 20
            /\ T < -10000 => r = 15
            /\ \A j \in 0..7 : T = 50000 - 10000 * j => r = 50 - 5 * j

\* the first version has written the recommendation 20 for a reading at
\* -10 degF
C17_Witness ==
    /\ HasReading /\ Legacy
    /\ wx.temp = -10000
    /\ \E i \in LegacyWrites : calls[i].ok /\ Recommended(i) = 20

----------------------------------------------------------------------------
(* C18 *)

\* C18 as stated: the recommendation does not increase with the temperature:
\* the one written for the reading at T1 is at least the recommendation for
\* every temperature T2 >= T1 and at most the recommendation for every
\* T2 <= T1.
C18_AsStated ==
    \A i \in LegacyWrites :
        \A t \in Temps :
            /\ wx.temp <= 1000 * t =>
                  Recommended(i) >= IndoorHumidityRecommendation(1000 * t)
            /\ 1000 * t <= wx.temp =>
                  IndoorHumidityRecommendation(1000 * t) >= Recommended(i)

\* C18 amended: the recommendation does not decrease with the temperature:
\* the one written for the reading at T1 is at most the recommendation for
\* every temperature T2 >= T1 and at least the recommendation for every
\* T2 <= T1.
C18_IndoorHumidityMonotone ==
    \A i \in LegacyWrites :
        \A t \in Temps :
            /\ wx.temp <= 1000 * t =>
                  Recommended(i) <= IndoorHumidityRecommendation(1000 * t)
            /\ 1000 * t <= wx.temp =>
                  IndoorHumidityRecommendation(1000 * t) <= Recommended(i)

\* the first version has written a recommendation for a reading at 25 degF;
\* a colder temperature has a lower recommendation and a warmer one a higher
C18_Witness ==
    /\ HasReading /\ Legacy
    /\ wx.temp = 25000
    /\ \E i \in LegacyWrites :
          /\ \E t \in Temps : 1000 * t < wx.temp
                /\ IndoorHumidityRecommendation(1000 * t) < Recommended(i)
          /\ \E t \in Temps : 1000 * t > wx.temp
                /\ IndoorHumidityRecommendation(1000 * t) > Recommended(i)

----------------------------------------------------------------------------
(* C19 *)

\* the tags of every weather and pollution write are exactly those of ks and
\* those of every ecobee_weather write exactly those of es
TagKeysAre(ks, es) ==
    \A i \in Ops("write") :
        Keys(calls[i].tags) = IF calls[i].point = "ecobee" THEN es ELSE ks

\* C19 as stated: every weather and every pollution point carries exactly the
\* tags source, latitude and longitude, the ecobee_weather point exactly the
\* tags thermostat_name and source.
C19_AsStated ==
    /\ TagKeysAre({"source", "latitude", "longitude"}, {"thermostat_name", "source"})
    /\ \A i \in Ops("write") : calls[i].tags["source"] = "openweathermap"

\* C19 amended: every weather and every pollution point written carries
\* exactly the tags data_source (= "openweathermap"), latitude and longitude,
\* the coordinates rendered with exactly 3 digits after the decimal point
\* (40.0 as "40.000", -75.0 as "-75.000"); the ecobee_weather point carries
\* exactly the tags thermostat_name and data_source and never a latitude or
\* longitude tag.
C19_TagSets ==
    /\ TagKeysAre({"data_source", "latitude", "longitude"},
                  {"thermostat_name", "data_source"})
    /\ \A i \in Ops("write") :
          /\ calls[i].point \in Points
          /\ calls[i].tags["data_source"] = "openweathermap"
          /\ calls[i].point = "ecobee" =>
                calls[i].tags["thermostat_name"] = config.EcobeeThermostatName
          /\ (calls[i].point # "ecobee" /\ config.Latitude = 40000) =>
                calls[i].tags["latitude"] = "40.000"
          /\ (calls[i].point # "ecobee" /\ config.Longitude = -75000) =>
                calls[i].tags["longitude"] = "-75.000"

\* a completed run at 40.0, -75.0 that wrote all three points
C19_Witness ==
    /\ Completed
    /\ config.Latitude = 40000 /\ config.Longitude = -75000
    /\ \A p \in Points : \E i \in Writes(p) : calls[i].ok

----------------------------------------------------------------------------
(* C20 *)

\* C20: each point is stamped with the timestamp of its own reading: every
\* pollution write and the timestamp key of the pollution payload carry the
\* pollution reading's Dt, every weather and ecobee_weather write and the
\* timestamp key of the weather payload carry the weather reading's Dt; when
\* the two differ, no point carries the other reading's timestamp.
C20_OwnTimestamp ==
    /\ \A i \in Ops("write") :
          /\ calls[i].ts = ReadingTime(calls[i].point)
          /\ calls[i].ts \in Times
    /\ \A i \in Ops("publish") :
          /\ "timestamp" \in Keys(calls[i].fields)
          /\ calls[i].fields["timestamp"] = ReadingTime(calls[i].point)
          /\ calls[i].fields["timestamp"] \in Times
    /\ (Passed("fetch_pollution") /\ wx.dt # pol.dt) =>
          \A i \in Deliveries :
              LET t == IF calls[i].op = "write" THEN calls[i].ts
                       ELSE calls[i].fields["timestamp"]
              IN  IF calls[i].point = "pollution" THEN t # wx.dt ELSE t # pol.dt

\* a completed run whose pollution reading is older than its weather
\* reading: all three points written, both payloads published
C20_Witness ==
    /\ Completed
    /\ pol.dt < wx.dt
    /\ \A p \in Points : \E i \in Writes(p) : calls[i].ok
    /\ Publishes("weather") # {} /\ Publishes("pollution") # {}

----------------------------------------------------------------------------
(* C21 *)

\* the keys under which a weather point may carry the recommended maximum
\* indoor humidity
RecommendationKeys ==
    {"recommended_max_indoor_humidity", "recommended_max_indoor_humidity_f",
     "recommended_max_indoor_humidity_c"}

\* the recommendation fields of the field-set handed over by call i
RecommendationsOf(i) == Keys(calls[i].fields) \cap RecommendationKeys

----------------------------------------------------------------------------
(* C22 *)

----------------------------------------------------------------------------
(* C23 *)

\* C23: in every run in which the broker connect succeeded, Disconnect is
\* invoked before the process terminates, the runs that abort with a fatal
\* error after the connection was opened included.
C23_DisconnectOnEveryPath ==
    (Ended /\ \E i \in Ops("connect") : calls[i].ok) => Ops("disconnect") # {}

----------------------------------------------------------------------------
(* C24 *)

\* no field-set handed to WritePoint holds a metadata key
NoMetadataWritten ==
    \A i \in Ops("write") : Keys(calls[i].fields) \cap MetadataKeys = {}

\* every attempt of the retried write of a point hands over the same
\* field-set (and the same tags and timestamp)
RetriesIdentical ==
    \A p \in Points :
        \A i, j \in Writes(p) :
            /\ calls[i].fields = calls[j].fields
            /\ calls[i].tags = calls[j].tags
            /\ calls[i].ts = calls[j].ts

\* the map m holds a metadata key
HasMetadata(m) == Keys(m) \cap MetadataKeys # {}

\* C24: the metadata keys source, latitude, longitude and timestamp are
\* appended to a point's field-set at most once per point and only in the
\* message-bus block of a run with the bus configured (a map that holds them
\* is never changed again, the ecobee map never holds them, and a run without
\* the bus never appends them); no database write attempt, first or retry, of
\* any point hands over a field-set holding one of the four keys, and the
\* field-set is identical on every attempt of the same point.
C24_MetadataOnlyForBus ==
    [][/\ NoMetadataWritten'
       /\ RetriesIdentical'
       /\ ~HasMetadata(ecobeeData')
       /\ HasMetadata(weatherData) => weatherData' = weatherData
       /\ HasMetadata(pollutionData) => pollutionData' = pollutionData
       /\ (HasMetadata(weatherData') /\ ~HasMetadata(weatherData)) =>
             /\ pc = "publish_weather" /\ mqttConfigured
             /\ Keys(weatherData') = Keys(weatherData) \cup MetadataKeys
       /\ (HasMetadata(pollutionData') /\ ~HasMetadata(pollutionData)) =>
             /\ pc = "publish_pollution" /\ mqttConfigured
             /\ Keys(pollutionData') = Keys(pollutionData) \cup MetadataKeys]_vars

\* a completed run with both sinks in which the weather point was written
\* on its third attempt and the pollution write was exhausted, both payloads
\* published with their metadata
C24_Witness ==
    /\ Completed
    /\ Cardinality(Writes("weather")) = 3
    /\ \E i \in Writes("weather") : calls[i].ok
    /\ Exhausted("pollution")
    /\ \E i \in Publishes("weather") : MetadataKeys \subseteq Keys(calls[i].fields)
    /\ \E i \in Publishes("pollution") : MetadataKeys \subseteq Keys(calls[i].fields)
    /\ HasMetadata(weatherData) /\ HasMetadata(pollutionData)

----------------------------------------------------------------------------
(* C25 *)

\* the message-bus delivery of point p failed: its serialization or its
\* publish
BusDeliveryFailed(p) ==
    \/ \E i \in Publishes(p) : ~calls[i].ok
    \/ ("Failed to marshal " \o p \o " data for MQTT") \in logs

\* C25: for each of the weather and pollution points there is at most one
\* publish per run (none of any other point), made with QoS 0 and not
\* retained, and none follows a failed one; a failed serialization or publish
\* is logged, the run does not end in the bus block, and a run whose weather
\* bus delivery failed still makes the pollution database write (when the
\* database is configured) and the pollution bus delivery once it gets past
\* them.
C25_PublishAtMostOnce ==
    /\ \A i \in Ops("publish") :
          /\ calls[i].point \in {"weather", "pollution"}
          /\ calls[i].qos = 0
          /\ ~calls[i].retained
          /\ ~calls[i].ok =>
                ("Failed to publish " \o calls[i].point \o " to MQTT") \in logs
    /\ \A p \in {"weather", "pollution"} : Cardinality(Publishes(p)) <= 1
    /\ Aborted => pc \notin {"publish_weather", "publish_pollution"}
    /\ BusDeliveryFailed("weather") =>
          /\ pc # "publish_weather"
          /\ (influxConfigured /\ Passed("write_pollution")) =>
                Writes("pollution") # {}
          /\ Passed("publish_pollution") => BusDeliveryAttempted("pollution")
    /\ BusDeliveryFailed("pollution") => (pc = "return" /\ ~Aborted)
    /\ (Completed /\ mqttConfigured) =>
          /\ BusDeliveryAttempted("weather")
          /\ BusDeliveryAttempted("pollution")

\* a completed run in which the weather publish failed, the pollution point
\* was then written and its publish failed as well
C25_Witness ==
    /\ Completed
    /\ \E i \in Publishes("weather") : ~calls[i].ok
    /\ \E i \in Writes("pollution") : calls[i].ok
    /\ \E i \in Publishes("pollution") : ~calls[i].ok
    /\ \A i \in Ops("publish") : calls[i].qos = 0

----------------------------------------------------------------------------
(* C26 *)

\* the ten fields of the ecobee_weather point
EcobeeKeys ==
    {"outdoor_temp", "outdoor_humidity", "barometric_pressure_mb",
     "barometric_pressure_inHg", "dew_point", "wind_speed", "wind_bearing",
     "visibility_mi", "recommended_max_indoor_humidity", "wind_chill_f"}

\* C26: every ecobee_weather point written has exactly the ten fields
\* outdoor_temp, outdoor_humidity, barometric_pressure_mb,
\* barometric_pressure_inHg, dew_point, wind_speed, wind_bearing,
\* visibility_mi, recommended_max_indoor_humidity and wind_chill_f, whatever
\* the outcome of the derived computations; when the wind chill computation
\* failed, wind_chill_f (the unwrapped result of that computation) is still a
\* field of the ecobee point while the weather point of the same run does not
\* carry it.
C26_EcobeeFieldSetFixed ==
    /\ \A i \in Writes("ecobee") :
          /\ Keys(calls[i].fields) = EcobeeKeys
          /\ Cardinality(Keys(calls[i].fields)) = 10
          /\ calls[i].fields["wind_chill_f"] = "windChillF"
    /\ (ecobeeData # EmptyMap) => Keys(ecobeeData) = EcobeeKeys
    /\ wx.windChillFErr =>
          \A j \in DeliveriesOf("weather") : "wind_chill_f" \notin Keys(calls[j].fields)

\* the wind chill computation failed: the ecobee point was written with
\* wind_chill_f and the weather point without it
C26_Witness ==
    /\ wx.windChillFErr
    /\ \E i \in Writes("ecobee") :
          calls[i].ok /\ "wind_chill_f" \in Keys(calls[i].fields)
    /\ \E j \in Writes("weather") :
          calls[j].ok /\ "wind_chill_f" \notin Keys(calls[j].fields)

----------------------------------------------------------------------------
(* C27 *)

DatabaseOps == {"health", "write"}

BusOps == {"connect", "publish", "disconnect"}

\* C27: when the database is not configured no health probe and no write of
\* any point is ever invoked, and when the message bus is not configured no
\* connect, publish or disconnect is; every write is invoked after the
\* database client was set up and every publish and disconnect after a
\* successful connect, so no operation is invoked on an uninitialised client.
C27_UnconfiguredSinkUntouched ==
    /\ (~HasConfig \/ ~InfluxConfigured(config)) =>
          \A i \in Idx : calls[i].op \notin DatabaseOps
    /\ (~HasConfig \/ ~MqttConfigured(config)) =>
          \A i \in Idx : calls[i].op \notin BusOps
    /\ \A i \in Idx :
          /\ calls[i].op \in DatabaseOps => influxConfigured
          /\ calls[i].op = "write" => Passed("influx_setup")
          /\ calls[i].op \in BusOps => mqttConfigured
          /\ calls[i].op \in {"publish", "disconnect"} =>
                /\ deferred
                /\ \E j \in Ops("connect") : j < i /\ calls[j].ok

\* a completed run with legacy-compatibility mode on and the bus alone
\* configured (a database server is named, its bucket is not, the health
\* check is not disabled): both payloads published, nothing probed or written
C27_Witness ==
    /\ Completed
    /\ config.WriteEcobeeWeatherMeasurement
    /\ config.InfluxServer # "" /\ ~config.InfluxHealthCheckDisabled
    /\ ~influxConfigured /\ mqttConfigured
    /\ Publishes("weather") # {} /\ Publishes("pollution") # {}
    /\ Ops("write") = {} /\ Ops("health") = {}

----------------------------------------------------------------------------
(* C28 *)

\* the bounds on the deliveries of a run
DeliveriesBounded ==
    /\ \A p \in Points : Cardinality(Writes(p)) <= influxAttempts
    /\ Cardinality(Ops("write")) <= 3 * influxAttempts
    /\ Cardinality(Ops("publish")) <= 2
    /\ n < influxAttempts

\* the ways a run ends: main returns, or exits on a flag, with status 0; or
\* a fatal statement ends it with a non-zero status
EndsInAbortOrCompletion ==
    Ended =>
        \/ exitStatus = 0 /\ pc \in {"flags", "return"}
        \/ Aborted /\ pc \in FatalStatements

\* C28: provided every external call returns, every run terminates; it
\* makes at most three database deliveries of at most 3 attempts each and at
\* most two publishes; control only ever moves to the next statement of main
\* (the one step that stays at its statement is a further attempt of a
\* retried write, and there are at most 2 of those per delivery), and the run
\* ends in a fatal abort or in normal completion, after which nothing more
\* happens.
C28_Terminates ==
    /\ <>Ended
    /\ []DeliveriesBounded
    /\ []EndsInAbortOrCompletion
    /\ [][/\ ~Ended
          /\ pc' # pc => (exitStatus' = -1 /\ pc' = Follows(pc))
          /\ pc' = pc =>
                \/ exitStatus' # -1
                \/ /\ n' = n + 1
                   /\ pc \in {"ecobee", "write_weather", "write_pollution"}
                   /\ Len(calls') = Len(calls) + 1]_vars

\* a completed run that made the most of everything: three deliveries of
\* three attempts each, two publishes
C28_Witness ==
    /\ Completed
    /\ Cardinality(Ops("write")) = 3 * influxAttempts
    /\ Cardinality(Ops("publish")) = 2
    /\ \E i \in Ops("disconnect") : i = Len(calls)

====
